---- MODULE Spec2Model ----
(***************************************************************************)
(* Supermarket MCP server (src/src/index.ts, with the draft copy in        *)
(* src/unnamed/part_001): the items and carts tables of the D1 database    *)
(* and the tool handlers that read and write them.  Every awaited storage  *)
(* statement is one step of the calling handler, so that concurrent tool   *)
(* calls interleave exactly at the awaits of the source.                    *)
(***************************************************************************)
EXTENDS Integers, Sequences, FiniteSets

\* ------------------------------------------------------------- bounds
MaxInvocations == 2
MaxList == 2

Procs == {1, 2}
Users == {"u1", "u2"}
ItemIds == {"apple", "bread"}
Names == {"Apple", "Bread"}
Prices == {1, 2}
Quantities == {-1, 0, 1, 2}

\* ------------------------------------------------------------- state
VARIABLES
    items,      \* the items table: a set of rows, id is the primary key
    carts,      \* the carts table: a sequence of rows in rowid order, no key
    pc,         \* per call slot: the statement the handler awaits next
    call,       \* per call slot: the tool and its validated arguments
    idx,        \* per call slot: position of the bulk loop in args.items
    existing,   \* per call slot: the row the handler's select().get() returned
    total,      \* per call slot: checkout's reduce() over the viewed cart
    result,     \* per call slot: what the handler returned
    ncalls,     \* service-function invocations dispatched so far (a bulk call invokes one per entry)
    preCarts,   \* history: carts when the call was dispatched
    preItems,   \* history: items when the call was dispatched
    window,     \* history: slots whose current call wrote between this call's read and its write
    raced,      \* history: tools that wrote between this call's read and its write
    removed,    \* history: what checkout's delete statement removed
    prev        \* history: the cart call that returned last

vars == <<items, carts, pc, call, idx, existing, total, result, ncalls,
          preCarts, preItems, window, raced, removed, prev>>

\* ------------------------------------------------------------- schemas
CartRow(u, i, q) == [userId |-> u, itemId |-> i, quantity |-> q]

Entry(i, q) == [itemId |-> i, quantity |-> q]

Entries == {Entry(i, q) : i \in ItemIds, q \in Quantities}

EntryLists == UNION {[1..n -> Entries] : n \in 0..MaxList}

NoCall == [op |-> "none", userId |-> "", entries |-> <<>>, id |-> "", name |-> <<>>, price |-> <<>>]

CartCall(op, u, es) == [NoCall EXCEPT !.op = op, !.userId = u, !.entries = es]

ItemCall(op, id, n, pr) == [NoCall EXCEPT !.op = op, !.id = id, !.name = n, !.price = pr]

CartItemSchema == {CartCall(op, u, <<e>>) : op \in {"addToCart", "removeFromCart"}, u \in Users, e \in Entries}

BulkCartSchema == {CartCall(op, u, es) : op \in {"addMultipleToCart", "removeMultipleFromCart"}, u \in Users, es \in EntryLists}

UserIdSchema == {CartCall(op, u, <<>>) : op \in {"viewCart", "checkout"}, u \in Users}

Optional(S) == {<<>>} \cup {<<x>> : x \in S}

AddItemSchema == {ItemCall("addItem", id, <<n>>, <<pr>>) : id \in ItemIds, n \in Names, pr \in Prices}

UpdateItemSchema == {ItemCall("updateItem", id, n, pr) : id \in ItemIds, n \in Optional(Names), pr \in Optional(Prices)}

RemoveItemSchema == {ItemCall("removeItem", id, <<>>, <<>>) : id \in ItemIds}

\* the calls that race in the concurrent specification
RacingCalls == CartItemSchema \cup {CartCall("checkout", u, <<>>) : u \in Users}

\* the calls of the tools that take one entry or none
SingleCalls == CartItemSchema \cup UserIdSchema \cup AddItemSchema \cup UpdateItemSchema \cup RemoveItemSchema

\* ------------------------------------------------------------- results
Pending == [tag |-> "pending", total |-> 0, rows |-> <<>>]

Text(t) == [Pending EXCEPT !.tag = t]

Success == Text("{success:true}")

NotInCart == Text("{success:false,message:Item not in cart}")

Thrown == Text("storage error")

CheckoutComplete(t) == [Pending EXCEPT !.tag = "Checkout complete!", !.total = t]

CartView(rows) == [Pending EXCEPT !.tag = "cart", !.rows = rows]

\* ------------------------------------------------------------- storage statements
Match(r, u, i) == r.userId = u /\ r.itemId = i

\* select().from(carts).where(userId = u and itemId = i).get(): the first matching row, or undefined
SelectFirst(rows, u, i) ==
    LET m == SelectSeq(rows, LAMBDA r : Match(r, u, i))
    IN  IF m = <<>> THEN <<>> ELSE <<m[1]>>

\* update(carts).set({quantity: q}).where(userId = u and itemId = i)
UpdateQuantity(rows, u, i, q) ==
    [k \in 1..Len(rows) |-> IF Match(rows[k], u, i) THEN [rows[k] EXCEPT !.quantity = q] ELSE rows[k]]

\* insert(carts).values({userId, itemId, quantity})
InsertRow(rows, u, i, q) == Append(rows, CartRow(u, i, q))

\* delete(carts).where(userId = u and itemId = i)
DeleteLine(rows, u, i) == SelectSeq(rows, LAMBDA r : ~Match(r, u, i))

\* fault: the delete without its where clause
DeleteEveryUser(rows, u) == SelectSeq(rows, LAMBDA r : FALSE)

\* delete(carts).where(userId = u)
DeleteUser(rows, u) == SelectSeq(rows, LAMBDA r : r.userId # u)

HasItem(its, id) == \E it \in its : it.id = id

ItemOf(its, id) == CHOOSE it \in its : it.id = id

JoinRow(its, r) == [id |-> r.itemId, name |-> ItemOf(its, r.itemId).name, price |-> ItemOf(its, r.itemId).price, quantity |-> r.quantity]

\* fault: a left join, which keeps the lines whose item is gone
viewCartLeftJoin(rows, its, u) ==
    LET m == SelectSeq(rows, LAMBDA r : r.userId = u)
    IN  [k \in 1..Len(m) |-> IF HasItem(its, m[k].itemId) THEN JoinRow(its, m[k])
                               ELSE [id |-> m[k].itemId, name |-> "", price |-> 0, quantity |-> m[k].quantity]]

\* fault: the join without its where clause on userId
viewCartAnyUser(rows, its, u) ==
    LET m == SelectSeq(rows, LAMBDA r : HasItem(its, r.itemId))
    IN  [k \in 1..Len(m) |-> JoinRow(its, m[k])]

\* select({id, name, price, quantity}).from(carts).innerJoin(items, itemId = id).where(userId = u).all()
viewCart(rows, its, u) ==
    LET m == SelectSeq(rows, LAMBDA r : r.userId = u /\ HasItem(its, r.itemId))
    IN  [k \in 1..Len(m) |-> JoinRow(its, m[k])]

RECURSIVE Reduce(_)
\* cart.reduce((sum, item) => sum + item.price * item.quantity, 0)
Reduce(cart) ==
    IF cart = <<>> THEN 0 ELSE Reduce(SubSeq(cart, 1, Len(cart) - 1)) + cart[Len(cart)].price * cart[Len(cart)].quantity

\* ------------------------------------------------------------- cart service
\* fault: the update stores the added quantity instead of the sum
AddWriteOverwrite(rows, ex, u, i, q) ==
    IF ex # <<>> THEN UpdateQuantity(rows, u, i, q) ELSE InsertRow(rows, u, i, q)

\* fault (for the race): the update increments the stored quantity in one statement
AddWriteAtomic(rows, ex, u, i, q) ==
    IF SelectFirst(rows, u, i) # <<>>
    THEN UpdateQuantity(rows, u, i, SelectFirst(rows, u, i)[1].quantity + q)
    ELSE InsertRow(rows, u, i, q)

\* the write of addToCart, decided on the row its read returned
AddWrite(rows, ex, u, i, q) ==
    IF ex # <<>> THEN UpdateQuantity(rows, u, i, ex[1].quantity + q) ELSE InsertRow(rows, u, i, q)

newQty(ex, q) == ex[1].quantity - q

\* fault: newQty >= 0 keeps a line of quantity zero
RemoveWriteKeepsZero(rows, ex, u, i, q) ==
    IF newQty(ex, q) >= 0 THEN UpdateQuantity(rows, u, i, newQty(ex, q)) ELSE DeleteLine(rows, u, i)

\* the write of removeFromCart, decided on the row its read returned
RemoveWrite(rows, ex, u, i, q) ==
    IF newQty(ex, q) > 0 THEN UpdateQuantity(rows, u, i, newQty(ex, q)) ELSE DeleteLine(rows, u, i)

\* fault: the loop works on the first entry every time
FirstEntry(c, k) == c.entries[1]

\* the entry the handler is working on: the only one of a single call, the loop's k-th of a bulk call
CurrentEntry(c, k) == c.entries[k]

IsAdd(c) == c.op \in {"addToCart", "addMultipleToCart"}

IsRemove(c) == c.op \in {"removeFromCart", "removeMultipleFromCart"}

IsBulk(c) == c.op \in {"addMultipleToCart", "removeMultipleFromCart"}

\* D1's run() resolves with success = true whenever the statement executed,
\* whatever the number of rows it changed; a failing statement throws instead
RunSuccess(changes) == TRUE

\* ------------------------------------------------------------- initial state
SeedItems == {[id |-> "apple", name |-> "Apple", price |-> 1], [id |-> "bread", name |-> "Bread", price |-> 2]}

NoRemoved == [value |-> 0, orphan |-> FALSE, lines |-> 0]

NoPrev == [op |-> "none", userId |-> "", entries |-> <<>>, fresh |-> FALSE, tag |-> "", total |-> 0]

InitQuantities == {1, 2}

InitRows == {CartRow(u, i, q) : u \in Users, i \in ItemIds, q \in InitQuantities}

\* tables earlier serial calls leave behind: one line per pair, every quantity positive
OneLine == {<<>>} \cup {<<r>> : r \in InitRows}

PairOrder == <<<<"u1", "apple">>, <<"u1", "bread">>, <<"u2", "apple">>, <<"u2", "bread">>>>

PairRank(r) == CHOOSE k \in 1..Len(PairOrder) : PairOrder[k] = <<r.userId, r.itemId>>

Before(r, t) == PairRank(r) < PairRank(t)

TwoLines == {t \in InitRows \X InitRows : Before(t[1], t[2])}

InitItems == {SeedItems, {it \in SeedItems : it.id = "apple"}}

Idle ==
    /\ pc = [p \in Procs |-> "idle"]
    /\ call = [p \in Procs |-> NoCall]
    /\ idx = [p \in Procs |-> 0]
    /\ existing = [p \in Procs |-> <<>>]
    /\ total = [p \in Procs |-> 0]
    /\ result = [p \in Procs |-> Pending]
    /\ ncalls = 0
    /\ preCarts = [p \in Procs |-> <<>>]
    /\ preItems = [p \in Procs |-> {}]
    /\ window = [p \in Procs |-> {}]
    /\ raced = [p \in Procs |-> {}]
    /\ removed = [p \in Procs |-> NoRemoved]
    /\ prev = NoPrev

Init ==
    /\ items \in InitItems
    /\ carts \in OneLine
    /\ Idle

SerialInit ==
    /\ items \in InitItems
    /\ carts \in OneLine \cup TwoLines
    /\ Idle

\* ------------------------------------------------------------- history bookkeeping
\* a write by slot p lands in the read-to-write window of every other slot that has read and not yet written
NoteWindow(p) == [q \in Procs |-> IF q # p /\ pc[q] \in {"write", "delete"} THEN window[q] \cup {p} ELSE window[q]]

NoteRaced(p) == [q \in Procs |-> IF q # p /\ pc[q] \in {"write", "delete"} THEN raced[q] \cup {call[p].op} ELSE raced[q]]

OpenWindow(p) ==
    /\ window' = [window EXCEPT ![p] = {}]
    /\ raced' = [raced EXCEPT ![p] = {}]

\* ------------------------------------------------------------- tool dispatch
FirstStatement(c) ==
    CASE c.op \in {"addToCart", "removeFromCart", "addMultipleToCart", "removeMultipleFromCart"} ->
            IF c.entries = <<>> THEN "done" ELSE "read"
      [] c.op \in {"viewCart", "checkout"} -> "view"
      [] c.op = "addItem" -> "insert"
      [] c.op = "updateItem" -> IF c.name = <<>> /\ c.price = <<>> THEN "done" ELSE "update"
      [] c.op = "removeItem" -> "remove"

\* a bulk call invokes addToCart or removeFromCart once per entry
Cost(c) == IF Len(c.entries) > 1 THEN Len(c.entries) ELSE 1

ImmediateResult(c) ==
    IF c.op = "updateItem" THEN Text("No fields to update.") ELSE Success

\* the dispatcher validates the arguments against the tool's schema and enters the handler;
\* the call takes the lowest free slot (slots are interchangeable)
Dispatch(p, c) ==
    /\ pc[p] = "idle"
    /\ \A q \in Procs : q < p => pc[q] # "idle"
    /\ ncalls + Cost(c) <= MaxInvocations
    /\ ncalls' = ncalls + Cost(c)
    /\ call' = [call EXCEPT ![p] = c]
    /\ pc' = [pc EXCEPT ![p] = FirstStatement(c)]
    /\ result' = [result EXCEPT ![p] = IF FirstStatement(c) = "done" THEN ImmediateResult(c) ELSE Pending]
    /\ idx' = [idx EXCEPT ![p] = 1]
    /\ existing' = [existing EXCEPT ![p] = <<>>]
    /\ total' = [total EXCEPT ![p] = 0]
    /\ preCarts' = [preCarts EXCEPT ![p] = carts]
    /\ preItems' = [preItems EXCEPT ![p] = items]
    /\ window' = [q \in Procs |-> IF q = p THEN {} ELSE window[q] \ {p}]
    /\ raced' = [raced EXCEPT ![p] = {}]
    /\ removed' = [removed EXCEPT ![p] = NoRemoved]
    /\ UNCHANGED <<items, carts, prev>>

\* after one entry: the single call returns r, the bulk loop moves on and returns {success: true} at the end
NextEntry(p, r) ==
    /\ idx' = [idx EXCEPT ![p] = idx[p] + 1]
    /\ IF idx[p] < Len(call[p].entries)
          THEN /\ pc' = [pc EXCEPT ![p] = "read"]
               /\ UNCHANGED result
          ELSE /\ pc' = [pc EXCEPT ![p] = "done"]
               /\ result' = [result EXCEPT ![p] = IF IsBulk(call[p]) THEN Success ELSE r]

\* addToCart: const existing = await select ... get()
AddRead(p) ==
    /\ pc[p] = "read" /\ IsAdd(call[p])
    /\ existing' = [existing EXCEPT ![p] = SelectFirst(carts, call[p].userId, CurrentEntry(call[p], idx[p]).itemId)]
    /\ pc' = [pc EXCEPT ![p] = "write"]
    /\ OpenWindow(p)
    /\ UNCHANGED <<items, carts, call, idx, total, result, ncalls, preCarts, preItems, removed, prev>>

\* addToCart: await update ... run() or await insert ... run(); return {success: true}
AddWriteStep(p) ==
    /\ pc[p] = "write" /\ IsAdd(call[p])
    /\ carts' = AddWrite(carts, existing[p], call[p].userId, CurrentEntry(call[p], idx[p]).itemId, CurrentEntry(call[p], idx[p]).quantity)
    /\ NextEntry(p, Success)
    /\ window' = NoteWindow(p)
    /\ raced' = NoteRaced(p)
    /\ UNCHANGED <<items, call, existing, total, ncalls, preCarts, preItems, removed, prev>>

\* removeFromCart: const existing = await select ... get(); if (!existing) return the failure shape
RemoveRead(p) ==
    /\ pc[p] = "read" /\ IsRemove(call[p])
    /\ existing' = [existing EXCEPT ![p] = SelectFirst(carts, call[p].userId, CurrentEntry(call[p], idx[p]).itemId)]
    /\ IF existing'[p] = <<>>
          THEN NextEntry(p, NotInCart)
          ELSE /\ pc' = [pc EXCEPT ![p] = "write"]
               /\ UNCHANGED <<idx, result>>
    /\ OpenWindow(p)
    /\ UNCHANGED <<items, carts, call, total, ncalls, preCarts, preItems, removed, prev>>

\* removeFromCart: await update ... run() or await delete ... run(); return {success: true}
RemoveWriteStep(p) ==
    /\ pc[p] = "write" /\ IsRemove(call[p])
    /\ carts' = RemoveWrite(carts, existing[p], call[p].userId, CurrentEntry(call[p], idx[p]).itemId, CurrentEntry(call[p], idx[p]).quantity)
    /\ NextEntry(p, Success)
    /\ window' = NoteWindow(p)
    /\ raced' = NoteRaced(p)
    /\ UNCHANGED <<items, call, existing, total, ncalls, preCarts, preItems, removed, prev>>

\* the viewCart tool: return await the join
ViewCartStep(p) ==
    /\ pc[p] = "view" /\ call[p].op = "viewCart"
    /\ pc' = [pc EXCEPT ![p] = "done"]
    /\ result' = [result EXCEPT ![p] = CartView(viewCart(carts, items, call[p].userId))]
    /\ UNCHANGED <<items, carts, call, idx, existing, total, ncalls, preCarts, preItems, window, raced, removed, prev>>

\* checkout: const cart = await viewCart(); const total = cart.reduce(...)
CheckoutView(p) ==
    /\ pc[p] = "view" /\ call[p].op = "checkout"
    /\ total' = [total EXCEPT ![p] = Reduce(viewCart(carts, items, call[p].userId))]
    /\ pc' = [pc EXCEPT ![p] = "delete"]
    /\ OpenWindow(p)
    /\ UNCHANGED <<items, carts, call, idx, existing, result, ncalls, preCarts, preItems, removed, prev>>

\* what a delete of user u's lines removes, priced by the items stored at that moment
Removal(rows, its, u) ==
    LET gone == SelectSeq(rows, LAMBDA r : r.userId = u)
    IN  [value |-> Reduce(viewCart(gone, its, u)),
         orphan |-> \E k \in 1..Len(gone) : ~HasItem(its, gone[k].itemId),
         lines |-> Len(gone)]

\* checkout: await delete(carts).where(userId = u).run(); return {total, message}
CheckoutDelete(p) ==
    /\ pc[p] = "delete"
    /\ carts' = DeleteUser(carts, call[p].userId)
    /\ removed' = [removed EXCEPT ![p] = Removal(carts, items, call[p].userId)]
    /\ pc' = [pc EXCEPT ![p] = "done"]
    /\ result' = [result EXCEPT ![p] = CheckoutComplete(total[p])]
    /\ window' = NoteWindow(p)
    /\ raced' = NoteRaced(p)
    /\ UNCHANGED <<items, call, idx, existing, total, ncalls, preCarts, preItems, prev>>

\* ------------------------------------------------------------- catalog service
\* addItem: await insert(items).values({id, name, price}).run(); the primary key rejects a second row with the id
AddItem(p) ==
    /\ pc[p] = "insert"
    /\ pc' = [pc EXCEPT ![p] = "done"]
    /\ IF HasItem(items, call[p].id)
          THEN /\ result' = [result EXCEPT ![p] = Thrown]
               /\ UNCHANGED <<items, window, raced>>
          ELSE /\ items' = items \cup {[id |-> call[p].id, name |-> call[p].name[1], price |-> call[p].price[1]]}
               /\ result' = [result EXCEPT ![p] = Text("Item added!")]
               /\ window' = NoteWindow(p)
               /\ raced' = NoteRaced(p)
    /\ UNCHANGED <<carts, call, idx, existing, total, ncalls, preCarts, preItems, removed, prev>>

\* the sparse patch: only the provided fields
Patch(it, c) ==
    [id |-> it.id,
     name |-> IF c.name # <<>> THEN c.name[1] ELSE it.name,
     price |-> IF c.price # <<>> THEN c.price[1] ELSE it.price]

Changes(its, id) == Cardinality({it \in its : it.id = id})

\* the text the updateItem handler returns for the result of run()
UpdateText(changes) == IF RunSuccess(changes) THEN "Item updated!" ELSE "Item not found."

\* the text the removeItem handler returns for the result of run()
RemoveText(changes) == IF RunSuccess(changes) THEN "Item removed!" ELSE "Item not found."

\* updateItem: const result = await update(items).set(update).where(id).run()
UpdateItem(p) ==
    /\ pc[p] = "update"
    /\ pc' = [pc EXCEPT ![p] = "done"]
    /\ items' = {IF it.id = call[p].id THEN Patch(it, call[p]) ELSE it : it \in items}
    /\ result' = [result EXCEPT ![p] = Text(UpdateText(Changes(items, call[p].id)))]
    /\ window' = NoteWindow(p)
    /\ raced' = NoteRaced(p)
    /\ UNCHANGED <<carts, call, idx, existing, total, ncalls, preCarts, preItems, removed, prev>>

\* delete(items).where(id): the carts table is not touched
DeleteItem(its, id) == {it \in its : it.id # id}

\* removeItem: const result = await delete(items).where(id).run()
RemoveItem(p) ==
    /\ pc[p] = "remove"
    /\ pc' = [pc EXCEPT ![p] = "done"]
    /\ items' = DeleteItem(items, call[p].id)
    /\ result' = [result EXCEPT ![p] = Text(RemoveText(Changes(items, call[p].id)))]
    /\ window' = NoteWindow(p)
    /\ raced' = NoteRaced(p)
    /\ UNCHANGED <<carts, call, idx, existing, total, ncalls, preCarts, preItems, removed, prev>>

\* ------------------------------------------------------------- failures and returns
\* the awaited statement throws (connectivity, engine error): nothing is caught, the
\* handler ends there and what it wrote before stays written
StorageError(p) ==
    /\ pc[p] \in {"read", "write", "view", "delete", "insert", "update", "remove"}
    /\ pc' = [pc EXCEPT ![p] = "done"]
    /\ result' = [result EXCEPT ![p] = Thrown]
    /\ UNCHANGED <<items, carts, call, idx, existing, total, ncalls, preCarts, preItems, window, raced, removed, prev>>

\* what the sequential laws remember of a returned call
Summary(p) ==
    IF call[p].op \in {"addToCart", "checkout"}
    THEN [op |-> call[p].op, userId |-> call[p].userId, entries |-> call[p].entries,
          fresh |-> call[p].op = "addToCart" /\ SelectFirst(preCarts[p], call[p].userId, call[p].entries[1].itemId) = <<>>,
          tag |-> result[p].tag, total |-> result[p].total]
    ELSE NoPrev

\* the response is serialized and sent; the slot is free for the next tool call
Return(p) ==
    /\ pc[p] = "done"
    /\ prev' = Summary(p)
    /\ pc' = [pc EXCEPT ![p] = "idle"]
    /\ call' = [call EXCEPT ![p] = NoCall]
    /\ idx' = [idx EXCEPT ![p] = 0]
    /\ existing' = [existing EXCEPT ![p] = <<>>]
    /\ total' = [total EXCEPT ![p] = 0]
    /\ result' = [result EXCEPT ![p] = Pending]
    /\ preCarts' = [preCarts EXCEPT ![p] = <<>>]
    /\ preItems' = [preItems EXCEPT ![p] = {}]
    /\ window' = [q \in Procs |-> IF q = p THEN {} ELSE window[q]]
    /\ raced' = [raced EXCEPT ![p] = {}]
    /\ removed' = [removed EXCEPT ![p] = NoRemoved]
    /\ UNCHANGED <<items, carts, ncalls>>

\* the steps of addToCart and removeFromCart, single or in a bulk loop
EntryStep(p) ==
    \/ AddRead(p)
    \/ AddWriteStep(p)
    \/ RemoveRead(p)
    \/ RemoveWriteStep(p)
    \/ StorageError(p)
    \/ Return(p)

CheckoutStep(p) ==
    \/ CheckoutView(p)
    \/ CheckoutDelete(p)

\* the steps of the remaining tools
OtherStep(p) ==
    \/ ViewCartStep(p)
    \/ AddItem(p)
    \/ UpdateItem(p)
    \/ RemoveItem(p)

NoneInFlight == \A q \in Procs : pc[q] = "idle"

\* concurrent cart calls: a call is dispatched whenever a slot is free
Next ==
    \/ \E p \in Procs : \E c \in RacingCalls : Dispatch(p, c)
    \/ \E p \in Procs : EntryStep(p)
    \/ \E p \in Procs : CheckoutStep(p)

Spec == Init /\ [][Next]_vars

\* serial calls of the single-entry tools: a call is dispatched only when no other call is in flight
SerialNext ==
    \/ \E p \in Procs : \E c \in SingleCalls : NoneInFlight /\ Dispatch(p, c)
    \/ \E p \in Procs : EntryStep(p)
    \/ \E p \in Procs : CheckoutStep(p)
    \/ \E p \in Procs : OtherStep(p)

SerialSpec == SerialInit /\ [][SerialNext]_vars

\* serial calls of the bulk tools
BulkNext ==
    \/ \E p \in Procs : \E c \in BulkCartSchema : NoneInFlight /\ Dispatch(p, c)
    \/ \E p \in Procs : EntryStep(p)

BulkSpec == SerialInit /\ [][BulkNext]_vars

\* ------------------------------------------------------------- properties
Done(p) == pc[p] = "done"

Returned(p) == Done(p) /\ result[p] # Thrown

LinesOf(rows, u, i) == SelectSeq(rows, LAMBDA r : Match(r, u, i))

OtherLines(rows, u, i) == SelectSeq(rows, LAMBDA r : ~Match(r, u, i))

TheItem(p) == call[p].entries[1].itemId

TheQuantity(p) == call[p].entries[1].quantity

\* C1: no stored cart row has quantity <= 0, whatever quantities the schema lets through
C1_NoNonPositiveRow == \A k \in 1..Len(carts) : carts[k].quantity > 0

\* C2: the carts table holds at most one row for each (userId, itemId) pair, also when the
\* reads and writes of concurrent addToCart calls interleave
C2_OneRowPerPair ==
    \A j, k \in 1..Len(carts) : j # k => ~Match(carts[j], carts[k].userId, carts[k].itemId)

\* C3: addToCart(u, i, q1) then addToCart(u, i, q2), run serially with no call in between
\* from a state with no row for the pair, leave exactly one row for the pair, with quantity
\* q1 + q2, and both return {success: true}
C3_MergeLaw ==
    \A p \in Procs :
        (/\ Done(p) /\ call[p].op = "addToCart" /\ result[p] # Thrown
         /\ prev.op = "addToCart" /\ prev.fresh /\ prev.tag # Thrown.tag
         /\ prev.userId = call[p].userId /\ prev.entries[1].itemId = TheItem(p))
        => /\ prev.tag = Success.tag
           /\ result[p] = Success
           /\ LinesOf(carts, call[p].userId, TheItem(p))
                = <<CartRow(call[p].userId, TheItem(p), prev.entries[1].quantity + TheQuantity(p))>>

C3_Witness ==
    \E p \in Procs :
        /\ Done(p) /\ call[p].op = "addToCart" /\ result[p] = Success
        /\ prev.op = "addToCart" /\ prev.fresh /\ prev.tag = Success.tag
        /\ prev.userId = call[p].userId /\ prev.entries[1].itemId = TheItem(p)
        /\ prev.entries[1].quantity = 2 /\ TheQuantity(p) = 1
        /\ Len(carts) = 2

\* C4: a serial removeFromCart(u, i, q) on an absent pair returns the "Item not in cart"
\* failure and changes nothing; on a row of quantity e it returns {success: true}, deletes
\* the row when q >= e, sets it to e - q when q < e, and changes no other row
C4_RemoveLaw ==
    \A p \in Procs :
        (Returned(p) /\ call[p].op = "removeFromCart") =>
            LET u == call[p].userId
                i == TheItem(p)
                q == TheQuantity(p)
                was == LinesOf(preCarts[p], u, i)
            IN  /\ was = <<>> => result[p] = NotInCart /\ carts = preCarts[p]
                /\ was # <<>> =>
                    /\ result[p] = Success
                    /\ OtherLines(carts, u, i) = OtherLines(preCarts[p], u, i)
                    /\ q >= was[1].quantity => LinesOf(carts, u, i) = <<>>
                    /\ q < was[1].quantity =>
                        /\ LinesOf(carts, u, i) = <<CartRow(u, i, was[1].quantity - q)>>
                        /\ Len(carts) = Len(preCarts[p])
                        /\ \A k \in 1..Len(carts) : Match(carts[k], u, i) <=> Match(preCarts[p][k], u, i)

C4_Witness ==
    \E p \in Procs :
        /\ Returned(p) /\ call[p].op = "removeFromCart" /\ result[p] = Success
        /\ TheQuantity(p) = 1
        /\ LinesOf(preCarts[p], call[p].userId, TheItem(p)) = <<CartRow(call[p].userId, TheItem(p), 2)>>
        /\ LinesOf(carts, call[p].userId, TheItem(p)) = <<CartRow(call[p].userId, TheItem(p), 1)>>
        /\ Len(carts) = 2

RECURSIVE SumLines(_, _, _)
\* the sum of price * quantity over user u's lines that the join with the items sees
SumLines(rows, its, u) ==
    IF rows = <<>> THEN 0
    ELSE (IF Head(rows).userId = u /\ HasItem(its, Head(rows).itemId)
            THEN ItemOf(its, Head(rows).itemId).price * Head(rows).quantity
            ELSE 0)
         + SumLines(Tail(rows), its, u)

\* C5: a serial checkout(u) returns the sum of price * quantity over u's lines as the join
\* sees them at the call, leaves u without cart lines and the other users' lines as they
\* were; a second checkout(u) right after it returns total 0
C5_CheckoutLaw ==
    \A p \in Procs :
        (Returned(p) /\ call[p].op = "checkout") =>
            LET u == call[p].userId
            IN  /\ result[p] = CheckoutComplete(SumLines(preCarts[p], preItems[p], u))
                /\ \A k \in 1..Len(carts) : carts[k].userId # u
                /\ carts = SelectSeq(preCarts[p], LAMBDA r : r.userId # u)
                /\ (prev.op = "checkout" /\ prev.userId = u /\ prev.tag # Thrown.tag) => result[p].total = 0

C5_Witness ==
    \E p \in Procs :
        /\ Returned(p) /\ call[p].op = "checkout"
        /\ prev.op = "checkout" /\ prev.userId = call[p].userId /\ prev.total > 0
        /\ result[p].total = 0
        /\ Len(carts) = 1

\* C6: removeItem(id) and updateItem(id, fields) with a field, on an id that matches no
\* stored item, return "Item not found." and leave the items table as it was; "Item
\* removed!" and "Item updated!" are returned only when a row with the id existed
C6_NotFound ==
    \A p \in Procs :
        (Returned(p) /\ call[p].op \in {"removeItem", "updateItem"} /\ result[p].tag # "No fields to update.") =>
            /\ ~HasItem(preItems[p], call[p].id) => result[p].tag = "Item not found." /\ items = preItems[p]
            /\ result[p].tag \in {"Item removed!", "Item updated!"} => HasItem(preItems[p], call[p].id)

IsMutation(p) == call[p].op \in {"addToCart", "removeFromCart"}

\* what the call in slot p, run alone on a row of quantity e, leaves of the row
Alone(p, e) ==
    LET q == TheQuantity(p)
    IN  IF call[p].op = "addToCart" THEN <<e + q>>
        ELSE IF e - q > 0 THEN <<e - q>> ELSE <<>>

\* the two calls of slots p and q hit the same existing row, read the same quantity of it,
\* and p's write landed between q's read and q's write; both returned {success: true}
LostUpdateRace(p, q) ==
    /\ p # q
    /\ Done(p) /\ Done(q) /\ IsMutation(p) /\ IsMutation(q)
    /\ result[p] = Success /\ result[q] = Success
    /\ call[p].userId = call[q].userId /\ TheItem(p) = TheItem(q)
    /\ existing[p] # <<>> /\ existing[q] # <<>>
    /\ existing[p][1].quantity = existing[q][1].quantity
    /\ p \in window[q]

\* C7: when two concurrent cart mutations of the same existing row both read the same prior
\* quantity, the later write overwrites the earlier one: both return {success: true} and the
\* stored quantity is the prior quantity changed by one of the two deltas only
C7_LostUpdate ==
    \A p, q \in Procs :
        LostUpdateRace(p, q) =>
            LET e == existing[q][1].quantity
                now == LinesOf(carts, call[q].userId, TheItem(q))
                left == IF Alone(p, e) = <<>> THEN <<>> ELSE Alone(q, e)
            IN  /\ now = <<>> <=> left = <<>>
                /\ \A k \in 1..Len(now) : left = <<now[k].quantity>>

C7_Witness ==
    \E p, q \in Procs :
        /\ LostUpdateRace(p, q)
        /\ call[p].op = "addToCart" /\ call[q].op = "addToCart"
        /\ TheQuantity(p) = 2 /\ TheQuantity(q) = 1
        /\ existing[q][1].quantity = 1
        /\ carts = <<CartRow(call[q].userId, TheItem(q), 2)>>

\* addToCart run to completion on its own
addToCart(rows, u, e) == AddWrite(rows, SelectFirst(rows, u, e.itemId), u, e.itemId, e.quantity)

RECURSIVE AddEach(_, _, _)
\* addToCart called once per entry, in input order
AddEach(rows, u, es) ==
    IF es = <<>> THEN rows ELSE AddEach(addToCart(rows, u, Head(es)), u, Tail(es))

\* the entries a returned bulk call went through: all of them, or those before the one that threw
Applied(p) == IF result[p] = Success THEN Len(call[p].entries) ELSE idx[p] - 1

\* C8: addMultipleToCart(u, items) with no concurrent call leaves the store as addToCart
\* called once per entry in input order leaves it: over the whole list when it returns
\* {success: true}, over the entries before the failing one, with no rollback, when a
\* storage call of an entry throws
C8_BulkAdd ==
    \A p \in Procs :
        (Done(p) /\ call[p].op = "addMultipleToCart") =>
            /\ result[p] \in {Success, Thrown}
            /\ result[p] = Thrown => idx[p] \in 1..Len(call[p].entries)
            /\ carts = AddEach(preCarts[p], call[p].userId, SubSeq(call[p].entries, 1, Applied(p)))

C8_Witness ==
    \E p \in Procs :
        /\ Done(p) /\ call[p].op = "addMultipleToCart" /\ result[p] = Success
        /\ call[p].entries = <<Entry("bread", 2), Entry("bread", 1)>>
        /\ LinesOf(preCarts[p], call[p].userId, "bread") = <<>>
        /\ LinesOf(carts, call[p].userId, "bread") = <<CartRow(call[p].userId, "bread", 3)>>
        /\ Len(preCarts[p]) = 2

\* the lines of user u whose itemId is the id of a stored item, in table order
VisibleLines(rows, its, u) ==
    SelectSeq(rows, LAMBDA r : r.userId = u /\ r.itemId \in {it.id : it \in its})

\* C9: removeItem(id) changes no cart row: the lines that referenced id stay stored with
\* their quantity, and viewCart no longer returns them; viewCart(u) returns exactly the
\* lines of u whose itemId matches a currently stored item
C9_OrphanLines ==
    \A p \in Procs :
        /\ (Returned(p) /\ call[p].op = "removeItem") =>
                /\ carts = preCarts[p]
                /\ \A u \in Users : \A k \in 1..Len(viewCart(carts, items, u)) : viewCart(carts, items, u)[k].id # call[p].id
        /\ (Returned(p) /\ call[p].op = "viewCart") =>
                LET seen == result[p].rows
                    lines == VisibleLines(carts, items, call[p].userId)
                IN  /\ Len(seen) = Len(lines)
                    /\ \A k \in 1..Len(seen) :
                        /\ seen[k].id = lines[k].itemId /\ seen[k].quantity = lines[k].quantity
                        /\ \E it \in items : it.id = seen[k].id /\ it.name = seen[k].name /\ it.price = seen[k].price

C9_Witness ==
    \E p \in Procs :
        /\ Returned(p) /\ call[p].op = "viewCart"
        /\ ~HasItem(items, "apple") /\ HasItem(items, "bread")
        /\ LinesOf(carts, call[p].userId, "apple") # <<>>
        /\ LinesOf(carts, call[p].userId, "bread") # <<>>
        /\ Len(result[p].rows) = 1 /\ result[p].rows[1].id = "bread"

CheckedOut(p) == Done(p) /\ call[p].op = "checkout" /\ result[p] # Thrown /\ ~removed[p].orphan

\* C10: however checkout(u) interleaves with concurrent addToCart calls for items that
\* exist, the total it returns is the sum of price * quantity over the lines its delete
\* statement removes
C10_TotalCoversDeleted ==
    \A p \in Procs :
        (CheckedOut(p) /\ raced[p] \subseteq {"addToCart"}) => result[p].total = removed[p].value

\* C10, amended: when no other call writes between checkout's view and its delete, and
\* every referenced item exists, the total is the sum of price * quantity over the lines
\* the delete statement removes
C10_TotalCoversDeletedUnraced ==
    \A p \in Procs :
        (CheckedOut(p) /\ raced[p] = {}) => result[p].total = removed[p].value

C10_Witness ==
    \E p, q \in Procs :
        /\ CheckedOut(p) /\ raced[p] = {}
        /\ removed[p].lines = 2 /\ result[p].total > 0
        /\ Done(q) /\ call[q].op = "addToCart" /\ call[q].userId = call[p].userId /\ result[q] = Success
        /\ carts = <<>>

====
